---- MODULE Spec2Model ----
(***************************************************************************)
(* A model of gtsam/navigation/ImuFactor.cpp: the preintegrated IMU        *)
(* measurements (ImuFactor::PreintegratedMeasurements) and the ImuFactor   *)
(* built from them.                                                        *)
(*                                                                         *)
(* Numbers are exact rationals <<numerator, denominator>>.  Rotations are  *)
(* 3x3 matrices; the inputs are chosen so that every rotation vector is a  *)
(* whole number of quarter turns about the z axis, where sine and cosine   *)
(* are exact.  The angle of a quarter turn, pi/2, is carried as the        *)
(* rational HalfPi; the right Jacobian and its inverse are computed from   *)
(* it by the closed formulas, so that JrInv(x) * Jr(x) = I holds exactly.  *)
(***************************************************************************)
EXTENDS Integers, Sequences, FiniteSets, TLC

VARIABLES
  pim,      \* the PreintegratedMeasurements object
  pc,       \* position inside integrateMeasurement: "idle", "jacobians", "measurements"
  loc,      \* the locals (and arguments) of the integrateMeasurement call
  result,   \* how the last integrateMeasurement ended: "none", "ok", "InvalidInput"
  outF,     \* Fout of the last integrateMeasurement
  outG,     \* Gout of the last integrateMeasurement
  writes,   \* the groups of members written by the running (or last) call, in order
  pre,      \* the object as it was when the running (or last) call was entered
  lastOp,   \* the last operation completed on the object
  preOp,    \* the last operation completed before the running (or last) call
  steps,    \* the number of integrateMeasurement calls made
  factor,   \* the ImuFactor built from the object, or NoFactor
  built,    \* the object as it was when the factor was built
  ev        \* per optimizer thread: its evaluateError call

vars ==
  <<pim, pc, loc, result, outF, outG, writes, pre, lastOp, preOp, steps, factor, built, ev>>

\* The number of integrateMeasurement calls explored.
MaxSteps == 2

-----------------------------------------------------------------------------
(* Exact rational arithmetic (the code's double).                          *)

Abs(n) == IF n < 0 THEN -n ELSE n

RECURSIVE GCD(_, _)
GCD(a, b) == IF b = 0 THEN a ELSE GCD(b, a % b)

Rat(n, d) ==
  LET g == GCD(Abs(n), Abs(d))
      s == IF d < 0 THEN -1 ELSE 1
  IN  <<(s * n) \div g, (s * d) \div g>>

RZero == <<0, 1>>
ROne == <<1, 1>>
RHalf == <<1, 2>>

RNeg(a) == <<-a[1], a[2]>>

RAdd(a, b) ==
  IF a[1] = 0 THEN b
  ELSE IF b[1] = 0 THEN a
  ELSE LET g == GCD(a[2], b[2])
       IN  Rat(a[1] * (b[2] \div g) + b[1] * (a[2] \div g), (a[2] \div g) * b[2])

RSub(a, b) == RAdd(a, RNeg(b))

RMul(a, b) ==
  IF a[1] = 0 \/ b[1] = 0 THEN RZero
  ELSE LET g1 == GCD(Abs(a[1]), b[2])
           g2 == GCD(Abs(b[1]), a[2])
       IN  <<(a[1] \div g1) * (b[1] \div g2), (a[2] \div g2) * (b[2] \div g1)>>

RDiv(a, b) == RMul(a, IF b[1] > 0 THEN <<b[2], b[1]>> ELSE <<-b[2], -b[1]>>)

RLeq(a, b) == RSub(a, b)[1] <= 0
RLess(a, b) == RSub(a, b)[1] < 0

-----------------------------------------------------------------------------
(* Vectors and matrices (Eigen's Vector3, Matrix3 and the 9x9 Matrix).     *)

\* A matrix or vector built by a constructor, evaluated once (TLC would otherwise
\* evaluate an entry anew at every use).
Eval(m) == IF m = <<>> THEN <<>> ELSE m

Vec(x, y, z) == <<Rat(x, 1), Rat(y, 1), Rat(z, 1)>>
VecAdd(u, v) == Eval([i \in 1..Len(u) |-> RAdd(u[i], v[i])])
VecSub(u, v) == Eval([i \in 1..Len(u) |-> RSub(u[i], v[i])])
VecScale(u, s) == Eval([i \in 1..Len(u) |-> RMul(u[i], s)])

RECURSIVE DotK(_, _, _, _, _)
DotK(A, B, i, j, k) ==
  IF k = 0 THEN RZero ELSE RAdd(DotK(A, B, i, j, k - 1), RMul(A[i][k], B[k][j]))

MatMul(A, B) == Eval([i \in 1..Len(A) |-> [j \in 1..Len(B[1]) |-> DotK(A, B, i, j, Len(B))]])
MatAdd(A, B) == Eval([i \in 1..Len(A) |-> [j \in 1..Len(A[1]) |-> RAdd(A[i][j], B[i][j])]])
MatSub(A, B) == Eval([i \in 1..Len(A) |-> [j \in 1..Len(A[1]) |-> RSub(A[i][j], B[i][j])]])
MatScale(A, s) == Eval([i \in 1..Len(A) |-> [j \in 1..Len(A[1]) |-> RMul(A[i][j], s)]])
MatNeg(A) == Eval([i \in 1..Len(A) |-> [j \in 1..Len(A[1]) |-> RNeg(A[i][j])]])
Transpose(A) == Eval([j \in 1..Len(A[1]) |-> [i \in 1..Len(A) |-> A[i][j]]])

RECURSIVE VecDotK(_, _, _)
VecDotK(r, v, k) ==
  IF k = 0 THEN RZero ELSE RAdd(VecDotK(r, v, k - 1), RMul(r[k], v[k]))

MatVec(A, v) == Eval([i \in 1..Len(A) |-> VecDotK(A[i], v, Len(v))])

Diag3(a, b, c) ==
  <<<<a, RZero, RZero>>, <<RZero, b, RZero>>, <<RZero, RZero, c>>>>

I_3x3 == Diag3(ROne, ROne, ROne)
Z_3x3 == Diag3(RZero, RZero, RZero)
Z_9x9 == [i \in 1..9 |-> [j \in 1..9 |-> RZero]]
ZeroVec == <<RZero, RZero, RZero>>

\* The comma initialiser of a 9x9 matrix from nine 3x3 blocks, row by row.
Blocks9(B) ==
  Eval([i \in 1..9 |-> [j \in 1..9 |->
     B[((i - 1) \div 3) + 1][((j - 1) \div 3) + 1][((i - 1) % 3) + 1][((j - 1) % 3) + 1]]])

\* M.block<3,3>(3(r-1), 3(c-1))
Block(M, r, c) == [i \in 1..3 |-> [j \in 1..3 |-> M[3 * (r - 1) + i][3 * (c - 1) + j]]]

skewSymmetric(w) ==
  <<<<RZero, RNeg(w[3]), w[2]>>,
    <<w[3], RZero, RNeg(w[1])>>,
    <<RNeg(w[2]), w[1], RZero>>>>

RECURSIVE TraceK(_, _)
TraceK(M, k) == IF k = 0 THEN RZero ELSE RAdd(TraceK(M, k - 1), M[k][k])
Trace(M) == TraceK(M, Len(M))

IsSymmetric(M) == \A i \in 1..Len(M) : \A j \in 1..Len(M) : M[i][j] = M[j][i]

\* Positive semidefinite, by symmetric elimination: every pivot is >= 0, and a
\* zero pivot has a zero row.
RECURSIVE PSDFrom(_, _)
PSDFrom(M, k) ==
  IF k > Len(M) THEN TRUE
  ELSE IF M[k][k][1] < 0 THEN FALSE
  ELSE IF M[k][k][1] = 0
       THEN (\A j \in k..Len(M) : M[k][j][1] = 0 /\ M[j][k][1] = 0) /\ PSDFrom(M, k + 1)
  ELSE PSDFrom([i \in 1..Len(M) |-> [j \in 1..Len(M) |->
                  IF i <= k \/ j <= k THEN M[i][j]
                  ELSE RSub(M[i][j], RMul(RDiv(M[i][k], M[k][k]), M[k][j]))]], k + 1)

IsPSD(M) == PSDFrom(M, 1)

-----------------------------------------------------------------------------
(* Rot3: rotations about the z axis by whole quarter turns.                *)

\* pi/2, the angle of a quarter turn, as the rational 8/5.  The rotation matrices
\* of whole quarter turns are exact; only the rotation vectors and the right
\* Jacobians carry this value.
HalfPi == <<8, 5>>

\* A rotation vector the model can map: k quarter turns about z.
Representable(theta) ==
  /\ theta[1] = RZero
  /\ theta[2] = RZero
  /\ RDiv(theta[3], HalfPi)[2] = 1

QuarterTurns(theta) == RDiv(theta[3], HalfPi)[1]

CosQ(k) == CASE k % 4 = 0 -> ROne [] k % 4 = 2 -> RNeg(ROne) [] OTHER -> RZero
SinQ(k) == CASE k % 4 = 1 -> ROne [] k % 4 = 3 -> RNeg(ROne) [] OTHER -> RZero

\* Rot3::Expmap (defined on the representable rotation vectors only)
Expmap(theta) ==
  CASE Representable(theta) ->
    LET k == QuarterTurns(theta)
    IN  <<<<CosQ(k), RNeg(SinQ(k)), RZero>>,
          <<SinQ(k), CosQ(k), RZero>>,
          <<RZero, RZero, ROne>>>>

\* Rot3::Logmap: the angle lies in (-pi, pi].
Logmap(R) ==
  LET k == CASE R[1][1] = ROne -> 0
             [] R[2][1] = ROne -> 1
             [] R[1][1] = RNeg(ROne) -> 2
             [] R[2][1] = RNeg(ROne) -> -1
  IN  <<RZero, RZero, RMul(Rat(k, 1), HalfPi)>>

\* Rot3::rightJacobianExpMapSO3, with its small-angle branch
rightJacobianExpMapSO3(x) ==
  LET k == Abs(QuarterTurns(x))
      normx == RMul(Rat(k, 1), HalfPi)
      X == skewSymmetric(x)
      n2 == RMul(normx, normx)
      n3 == RMul(n2, normx)
  IN  IF k = 0 THEN I_3x3
      ELSE MatAdd(MatSub(I_3x3, MatScale(X, RDiv(RSub(ROne, CosQ(k)), n2))),
                  MatScale(MatMul(X, X), RDiv(RSub(normx, SinQ(k)), n3)))

\* Rot3::rightJacobianExpMapSO3inverse, with its small-angle branch
rightJacobianExpMapSO3inverse(x) ==
  LET k == Abs(QuarterTurns(x))
      normx == RMul(Rat(k, 1), HalfPi)
      X == skewSymmetric(x)
      n2 == RMul(normx, normx)
      c == IF RAdd(ROne, CosQ(k)) = RZero THEN RDiv(ROne, n2)
           ELSE RSub(RDiv(ROne, n2),
                     RDiv(RAdd(ROne, CosQ(k)), RMul(RMul(Rat(2, 1), normx), SinQ(k))))
  IN  IF k = 0 THEN I_3x3
      ELSE MatAdd(MatAdd(I_3x3, MatScale(X, RHalf)), MatScale(MatMul(X, X), c))

-----------------------------------------------------------------------------
(* PreintegrationBase, the base class of PreintegratedMeasurements: the    *)
(* deltas, their Jacobians with respect to the bias, and the bias.         *)

\* boost::optional<const Pose3&>: absent, or a pose [R, t]
NoPose == [present |-> FALSE]

\* PreintegrationBase::PreintegrationBase(bias, use2ndOrderIntegration)
PreintegrationBase(bias, use2ndOrderIntegration) ==
  [biasHat |-> bias,
   use2ndOrderIntegration |-> use2ndOrderIntegration,
   deltaPij |-> ZeroVec,
   deltaVij |-> ZeroVec,
   deltaRij |-> I_3x3,
   deltaTij |-> RZero,
   delPdelBiasAcc |-> Z_3x3,
   delPdelBiasOmega |-> Z_3x3,
   delVdelBiasAcc |-> Z_3x3,
   delVdelBiasOmega |-> Z_3x3,
   delRdelBiasOmega |-> Z_3x3]

\* PreintegrationBase::resetIntegration
BaseResetIntegration(p) ==
  [p EXCEPT !.deltaPij = ZeroVec,
            !.deltaVij = ZeroVec,
            !.deltaRij = I_3x3,
            !.deltaTij = RZero,
            !.delPdelBiasAcc = Z_3x3,
            !.delPdelBiasOmega = Z_3x3,
            !.delVdelBiasAcc = Z_3x3,
            !.delVdelBiasOmega = Z_3x3,
            !.delRdelBiasOmega = Z_3x3]

deltaRij(p) == p.deltaRij
thetaRij(p) == Logmap(p.deltaRij)

\* PreintegrationBase::correctMeasurementsByBiasAndSensorPose: the bias is
\* subtracted; with a sensor pose the rate is rotated into the body frame and the
\* acceleration gets the lever-arm (centripetal) correction.
correctMeasurementsByBiasAndSensorPose(p, measuredAcc, measuredOmega, body_P_sensor) ==
  LET acc0 == VecSub(measuredAcc, p.biasHat.acc)
      omega0 == VecSub(measuredOmega, p.biasHat.gyro)
  IN  IF body_P_sensor = NoPose
      THEN [correctedAcc |-> acc0, correctedOmega |-> omega0]
      ELSE LET body_R_sensor == body_P_sensor.R
               omega1 == MatVec(body_R_sensor, omega0)
               cross == skewSymmetric(omega1)
           IN  [correctedAcc |->
                  VecSub(MatVec(body_R_sensor, acc0),
                         MatVec(MatMul(cross, cross), body_P_sensor.t)),
                correctedOmega |-> omega1]

\* PreintegrationBase::updatePreintegratedJacobians: every right-hand side reads
\* the members as they are before the call.
updatePreintegratedJacobians(p, correctedAcc, Jr_theta_incr, Rincr, deltaT) ==
  LET dRij == p.deltaRij
      temp == MatMul(MatScale(MatNeg(MatMul(dRij, skewSymmetric(correctedAcc))), deltaT),
                     p.delRdelBiasOmega)
      dt2 == RMul(deltaT, deltaT)
  IN  [p EXCEPT
         !.delPdelBiasAcc =
            IF p.use2ndOrderIntegration
            THEN MatAdd(p.delPdelBiasAcc,
                        MatSub(MatScale(p.delVdelBiasAcc, deltaT),
                               MatScale(dRij, RMul(RHalf, dt2))))
            ELSE MatAdd(p.delPdelBiasAcc, MatScale(p.delVdelBiasAcc, deltaT)),
         !.delPdelBiasOmega =
            IF p.use2ndOrderIntegration
            THEN MatAdd(p.delPdelBiasOmega,
                        MatScale(MatAdd(p.delVdelBiasOmega, MatScale(temp, RHalf)), deltaT))
            ELSE MatAdd(p.delPdelBiasOmega, MatScale(p.delVdelBiasOmega, deltaT)),
         !.delVdelBiasAcc = MatSub(p.delVdelBiasAcc, MatScale(dRij, deltaT)),
         !.delVdelBiasOmega = MatAdd(p.delVdelBiasOmega, temp),
         !.delRdelBiasOmega =
            MatSub(MatMul(Transpose(Rincr), p.delRdelBiasOmega),
                   MatScale(Jr_theta_incr, deltaT))]

\* PreintegrationBase::updatePreintegratedMeasurements: every right-hand side
\* reads the deltas as they are before the call.
updatePreintegratedMeasurements(p, correctedAcc, incrR, deltaT) ==
  LET dRij == p.deltaRij
      temp == VecScale(MatVec(dRij, correctedAcc), deltaT)
  IN  [p EXCEPT
         !.deltaPij =
            IF p.use2ndOrderIntegration
            THEN VecAdd(p.deltaPij,
                        VecAdd(VecScale(p.deltaVij, deltaT),
                               VecScale(temp, RMul(RHalf, deltaT))))
            ELSE VecAdd(p.deltaPij, VecScale(p.deltaVij, deltaT)),
         !.deltaVij = VecAdd(p.deltaVij, temp),
         !.deltaRij = MatMul(dRij, incrR),
         !.deltaTij = RAdd(p.deltaTij, deltaT)]

-----------------------------------------------------------------------------
(* ImuFactor::PreintegratedMeasurements                                    *)

\* The constructor: the base, the block-diagonal measurementCovariance_ and a
\* zero preintMeasCov_.
PreintegratedMeasurements(bias, measuredAccCovariance, measuredOmegaCovariance, integrationErrorCovariance, use2ndOrderIntegration) ==
  [f \in DOMAIN PreintegrationBase(bias, use2ndOrderIntegration)
           \cup {"measurementCovariance_", "preintMeasCov_"} |->
     CASE f = "measurementCovariance_" ->
            Blocks9(<<<<integrationErrorCovariance, Z_3x3, Z_3x3>>,
                      <<Z_3x3, measuredAccCovariance, Z_3x3>>,
                      <<Z_3x3, Z_3x3, measuredOmegaCovariance>>>>)
       [] f = "preintMeasCov_" -> Z_9x9
       [] OTHER -> PreintegrationBase(bias, use2ndOrderIntegration)[f]]

\* A resetIntegration that resets the base and forgets preintMeasCov_.
resetIntegrationKeepsCovariance(p) == BaseResetIntegration(p)

\* resetIntegration
resetIntegration(p) ==
  [BaseResetIntegration(p) EXCEPT !.preintMeasCov_ = Z_9x9]

\* The members integrateMeasurement advances through updatePreintegratedMeasurements.
Deltas(p) == <<p.deltaRij, p.deltaVij, p.deltaPij, p.deltaTij>>

\* The members integrateMeasurement updates through updatePreintegratedJacobians.
Jacobians(p) ==
  <<p.delPdelBiasAcc, p.delPdelBiasOmega, p.delVdelBiasAcc, p.delVdelBiasOmega,
    p.delRdelBiasOmega>>

\* H_vel_angles without the right Jacobian of theta_i.
H_vel_anglesWithoutJacobian(R_i, correctedAcc, Jr_theta_i, deltaT) ==
  MatScale(MatMul(MatNeg(R_i), skewSymmetric(correctedAcc)), deltaT)

H_vel_angles(R_i, correctedAcc, Jr_theta_i, deltaT) ==
  MatScale(MatMul(MatMul(MatNeg(R_i), skewSymmetric(correctedAcc)), Jr_theta_i), deltaT)

H_angles_angles(Jrinv_theta_j, Rincr, Jr_theta_i) ==
  MatMul(MatMul(Jrinv_theta_j, Transpose(Rincr)), Jr_theta_i)

\* F: the Jacobian of the step with respect to the preintegrated measurements
FMatrix(R_i, correctedAcc, Jr_theta_i, Jrinv_theta_j, Rincr, deltaT) ==
  Blocks9(<<<<I_3x3, MatScale(I_3x3, deltaT), Z_3x3>>,
            <<Z_3x3, I_3x3, H_vel_angles(R_i, correctedAcc, Jr_theta_i, deltaT)>>,
            <<Z_3x3, Z_3x3, H_angles_angles(Jrinv_theta_j, Rincr, Jr_theta_i)>>>>)

\* A propagation that adds measurementCovariance_ unscaled by deltaT.
PropagateCovarianceUnscaledNoise(F, preintMeasCov, measurementCovariance, deltaT) ==
  MatAdd(MatMul(MatMul(F, preintMeasCov), Transpose(F)), measurementCovariance)

\* A propagation that adds no noise.
PropagateCovarianceWithoutNoise(F, preintMeasCov, measurementCovariance, deltaT) ==
  MatMul(MatMul(F, preintMeasCov), Transpose(F))

\* preintMeasCov_ = F * preintMeasCov_ * F.transpose() + measurementCovariance_ * deltaT
PropagateCovariance(F, preintMeasCov, measurementCovariance, deltaT) ==
  MatAdd(MatMul(MatMul(F, preintMeasCov), Transpose(F)),
         MatScale(measurementCovariance, deltaT))

\* Gout
GMatrix(R_i, Jrinv_theta_j, Jr_theta_incr, deltaT) ==
  Blocks9(<<<<MatScale(I_3x3, deltaT), Z_3x3, Z_3x3>>,
            <<Z_3x3, MatScale(R_i, deltaT), Z_3x3>>,
            <<Z_3x3, Z_3x3, MatScale(MatMul(Jrinv_theta_j, Jr_theta_incr), deltaT)>>>>)

NoLocals == [call |-> "none"]
NoMatrix == <<>>

\* integrateMeasurement, lines 76-92: the measurement is corrected, the increment
\* computed, the Jacobians updated, and theta_i, R_i and Jr_theta_i read.
IntegrateJacobians(measuredAcc, measuredOmega, deltaT, body_P_sensor) ==
  /\ pc = "idle"
  /\ steps < MaxSteps
  /\ LET corrected == correctMeasurementsByBiasAndSensorPose(
                         pim, measuredAcc, measuredOmega, body_P_sensor)
         theta_incr == VecScale(corrected.correctedOmega, deltaT)
     IN  /\ Representable(theta_incr)
         /\ LET Rincr == Expmap(theta_incr)
                Jr_theta_incr == rightJacobianExpMapSO3(theta_incr)
                updated == updatePreintegratedJacobians(
                              pim, corrected.correctedAcc, Jr_theta_incr, Rincr, deltaT)
            IN  /\ pim' = updated
                /\ loc' = [call |-> "integrateMeasurement",
                           measuredAcc |-> measuredAcc,
                           measuredOmega |-> measuredOmega,
                           deltaT |-> deltaT,
                           body_P_sensor |-> body_P_sensor,
                           correctedAcc |-> corrected.correctedAcc,
                           correctedOmega |-> corrected.correctedOmega,
                           theta_incr |-> theta_incr,
                           Rincr |-> Rincr,
                           Jr_theta_incr |-> Jr_theta_incr,
                           theta_i |-> thetaRij(updated),
                           R_i |-> deltaRij(updated),
                           Jr_theta_i |-> rightJacobianExpMapSO3(thetaRij(updated))]
  /\ pre' = pim
  /\ preOp' = lastOp
  /\ writes' = <<"jacobians">>
  /\ pc' = "jacobians"
  /\ UNCHANGED <<result, outF, outG, lastOp, steps, factor, built, ev>>

\* Line 96 with correctedOmega passed where correctedAcc belongs.
AdvanceMeasurementsByOmega(p, l) ==
  updatePreintegratedMeasurements(p, l.correctedOmega, l.Rincr, l.deltaT)

\* integrateMeasurement, line 96
AdvanceMeasurements(p, l) ==
  updatePreintegratedMeasurements(p, l.correctedAcc, l.Rincr, l.deltaT)

\* integrateMeasurement, lines 94-99: the deltas are advanced, and theta_j and
\* Jrinv_theta_j read.
IntegrateMeasurements ==
  /\ pc = "jacobians"
  /\ pim' = AdvanceMeasurements(pim, loc)
  /\ loc' = [f \in DOMAIN loc \cup {"theta_j", "Jrinv_theta_j"} |->
               CASE f = "theta_j" -> thetaRij(pim')
                 [] f = "Jrinv_theta_j" -> rightJacobianExpMapSO3inverse(thetaRij(pim'))
                 [] OTHER -> loc[f]]
  /\ writes' = Append(writes, "measurements")
  /\ pc' = "measurements"
  /\ UNCHANGED <<result, outF, outG, pre, lastOp, preOp, steps, factor, built, ev>>

\* integrateMeasurement, lines 101-143: F, the covariance, Fout and Gout; the
\* call returns (no exception is thrown anywhere in the function).
IntegrateCovariance ==
  /\ pc = "measurements"
  /\ LET F == FMatrix(loc.R_i, loc.correctedAcc, loc.Jr_theta_i, loc.Jrinv_theta_j,
                      loc.Rincr, loc.deltaT)
     IN  /\ pim' = [pim EXCEPT !.preintMeasCov_ =
                      PropagateCovariance(F, pim.preintMeasCov_,
                                          pim.measurementCovariance_, loc.deltaT)]
         /\ outF' = F
         /\ outG' = GMatrix(loc.R_i, loc.Jrinv_theta_j, loc.Jr_theta_incr, loc.deltaT)
  /\ writes' = Append(writes, "covariance")
  /\ pc' = "idle"
  /\ result' = "ok"
  /\ lastOp' = "integrateMeasurement"
  /\ steps' = steps + 1
  /\ UNCHANGED <<loc, pre, preOp, factor, built, ev>>

\* resetIntegration, called between integrateMeasurement calls
ResetIntegration ==
  /\ pc = "idle"
  /\ pim' = resetIntegration(pim)
  /\ pre' = pim
  /\ preOp' = lastOp
  /\ lastOp' = "resetIntegration"
  /\ writes' = <<>>
  /\ UNCHANGED <<pc, loc, result, outF, outG, steps, factor, built, ev>>

-----------------------------------------------------------------------------
(* The inputs explored.                                                    *)

ZeroBias == [acc |-> ZeroVec, gyro |-> ZeroVec]
SomeBias == [acc |-> Vec(1, 0, 0), gyro |-> <<RZero, RZero, RMul(Rat(2, 1), HalfPi)>>]

Sym3(a, b, c, ab) ==
  <<<<a, ab, RZero>>, <<ab, b, RZero>>, <<RZero, RZero, c>>>>

\* Construction arguments: bias, accelerometer, gyroscope and integration-error
\* covariances (symmetric positive definite), second-order flag.
Configs ==
  {[bias |-> ZeroBias, accCov |-> I_3x3, omegaCov |-> MatScale(I_3x3, Rat(16, 1)),
    intCov |-> I_3x3, use2nd |-> b] : b \in BOOLEAN}
  \cup
  {[bias |-> SomeBias, accCov |-> Sym3(Rat(2, 1), Rat(2, 1), ROne, ROne),
    omegaCov |-> I_3x3, intCov |-> MatScale(I_3x3, Rat(1, 10)), use2nd |-> b] :
     b \in BOOLEAN}

\* A sensor mounted a quarter turn about z from the body, one unit along x.
SensorPose == [present |-> TRUE, R |-> Expmap(<<RZero, RZero, HalfPi>>), t |-> Vec(1, 0, 0)]

Sample(acc, omega, deltaT, pose) ==
  [acc |-> acc, omega |-> omega, deltaT |-> deltaT, pose |-> pose]

OmegaZ(q) == <<RZero, RZero, RMul(q, HalfPi)>>

\* The measurements fed to integrateMeasurement: the gravity-cancelling sample at
\* rest, quarter turns either way (with and without a sensor pose), a fast quarter
\* turn back over a short interval, a zero and a negative interval.  The
\* gravity-cancelling sample is fed to a new or reset object only: its three-digit
\* acceleration, squared at every later step, leaves TLC's 32-bit integers.
GravitySample == Sample(<<RZero, RZero, Rat(981, 100)>>, ZeroVec, Rat(1, 10), NoPose)

Samples ==
  { GravitySample,
    Sample(Vec(1, 0, 0), OmegaZ(ROne), ROne, NoPose),
    Sample(Vec(1, 0, 0), OmegaZ(ROne), ROne, SensorPose),
    Sample(Vec(0, 1, 0), OmegaZ(Rat(-1, 1)), ROne, NoPose),
    Sample(ZeroVec, OmegaZ(Rat(-10, 1)), Rat(1, 10), NoPose),
    Sample(Vec(0, 2, 1), ZeroVec, Rat(-1, 1), NoPose),
    Sample(Vec(1, 0, 0), OmegaZ(ROne), RZero, NoPose) }

NoFactor == [built |-> FALSE]
\* The optimizer threads calling evaluateError.
Threads == {"optimizer1", "optimizer2"}
IdleCall == [pc |-> "idle"]

InitOf(configs) ==
  /\ \E c \in configs :
       pim = PreintegratedMeasurements(c.bias, c.accCov, c.omegaCov, c.intCov, c.use2nd)
  /\ pc = "idle"
  /\ loc = NoLocals
  /\ result = "none"
  /\ outF = NoMatrix
  /\ outG = NoMatrix
  /\ writes = <<>>
  /\ pre = pim
  /\ lastOp = "new"
  /\ preOp = "new"
  /\ steps = 0
  /\ factor = NoFactor
  /\ built = NoFactor
  /\ ev = [t \in Threads |-> IdleCall]

Init == InitOf(Configs)

\* integrateMeasurement is called with one of the samples.
CallIntegrate(samples) ==
  \E s \in samples :
    /\ s = GravitySample => lastOp # "integrateMeasurement"
    /\ IntegrateJacobians(s.acc, s.omega, s.deltaT, s.pose)

Next ==
  \/ CallIntegrate(Samples)
  \/ IntegrateMeasurements
  \/ IntegrateCovariance
  \/ ResetIntegration

Spec == Init /\ [][Next]_vars

\* The object fed measurements only: samples with deltaT > 0.
Measurements == {s \in Samples : s.deltaT[1] > 0}

NextMeasurements ==
  \/ CallIntegrate(Measurements)
  \/ IntegrateMeasurements
  \/ IntegrateCovariance
  \/ ResetIntegration

SpecMeasurements == Init /\ [][NextMeasurements]_vars

-----------------------------------------------------------------------------
(* ImuFactor                                                               *)

\* noiseModel::Gaussian::Covariance: the weighting derived from a covariance
GaussianCovariance(covariance) == [covariance |-> covariance]

Cross(a, b) == MatVec(skewSymmetric(a), b)

\* PreintegrationBase::computeErrorAndJacobians, first half: the deltas corrected
\* to first order for the change of bias since preintegration.
biascorrectedDeltas(p, bias_i) ==
  LET biasAccIncr == VecSub(bias_i.acc, p.biasHat.acc)
      biasOmegaIncr == VecSub(bias_i.gyro, p.biasHat.gyro)
  IN  [deltaPij |-> VecAdd(p.deltaPij,
                           VecAdd(MatVec(p.delPdelBiasAcc, biasAccIncr),
                                  MatVec(p.delPdelBiasOmega, biasOmegaIncr))),
       deltaVij |-> VecAdd(p.deltaVij,
                           VecAdd(MatVec(p.delVdelBiasAcc, biasAccIncr),
                                  MatVec(p.delVdelBiasOmega, biasOmegaIncr))),
       thetaRij |-> VecAdd(thetaRij(p), MatVec(p.delRdelBiasOmega, biasOmegaIncr))]

\* PreintegrationBase::computeErrorAndJacobians, second half: the prediction of
\* pose_j and vel_j and the residual [rotation, velocity, position].
residualOf(corrected, deltaTij, pose_i, vel_i, pose_j, vel_j, gravity, omegaCoriolis, use2ndOrderCoriolis) ==
  LET dt2 == RMul(deltaTij, deltaTij)
      centripetal == Cross(omegaCoriolis, Cross(omegaCoriolis, pose_i.t))
      pos0 == VecAdd(VecAdd(pose_i.t, MatVec(pose_i.R, corrected.deltaPij)),
                     VecAdd(VecSub(VecScale(vel_i, deltaTij),
                                   VecScale(Cross(omegaCoriolis, vel_i), dt2)),
                            VecScale(gravity, RMul(RHalf, dt2))))
      vel0 == VecAdd(VecAdd(vel_i, MatVec(pose_i.R, corrected.deltaVij)),
                     VecSub(VecScale(gravity, deltaTij),
                            VecScale(Cross(omegaCoriolis, vel_i),
                                     RMul(Rat(2, 1), deltaTij))))
      pos_j_pred == IF use2ndOrderCoriolis
                    THEN VecSub(pos0, VecScale(centripetal, RMul(RHalf, dt2)))
                    ELSE pos0
      vel_j_pred == IF use2ndOrderCoriolis
                    THEN VecSub(vel0, VecScale(centripetal, deltaTij))
                    ELSE vel0
      theta_corrected ==
        VecSub(corrected.thetaRij,
               VecScale(MatVec(Transpose(pose_i.R), omegaCoriolis), deltaTij))
      fRhat == MatMul(Transpose(Expmap(theta_corrected)),
                      MatMul(Transpose(pose_i.R), pose_j.R))
  IN  Logmap(fRhat) \o VecSub(vel_j, vel_j_pred) \o VecSub(pose_j.t, pos_j_pred)

\* PreintegrationBase::computeErrorAndJacobians (the Jacobians H1..H5 left
\* unrequested)
computeErrorAndJacobians(p, pose_i, vel_i, pose_j, vel_j, bias_i, gravity, omegaCoriolis, use2ndOrderCoriolis) ==
  residualOf(biascorrectedDeltas(p, bias_i), p.deltaTij, pose_i, vel_i, pose_j, vel_j,
             gravity, omegaCoriolis, use2ndOrderCoriolis)

\* The constructor: the noise model from the covariance of the preintegrated
\* measurements, and _PIM_ copy-constructed from them.
ImuFactor(preintegratedMeasurements, gravity, omegaCoriolis, body_P_sensor, use2ndOrderCoriolis) ==
  [built |-> TRUE,
   noiseModel_ |-> GaussianCovariance(preintegratedMeasurements.preintMeasCov_),
   gravity_ |-> gravity,
   omegaCoriolis_ |-> omegaCoriolis,
   body_P_sensor_ |-> body_P_sensor,
   use2ndOrderCoriolis_ |-> use2ndOrderCoriolis,
   PIM_ |-> preintegratedMeasurements]

\* A factor holding a reference to the object it was built from.
PIMofOriginal(f) == pim

\* The member _PIM_ of a factor: a PreintegratedMeasurements held by value.
PIMof(f) == f.PIM_

\* evaluateError
evaluateError(f, pose_i, vel_i, pose_j, vel_j, bias_i) ==
  computeErrorAndJacobians(PIMof(f), pose_i, vel_i, pose_j, vel_j, bias_i,
                           f.gravity_, f.omegaCoriolis_, f.use2ndOrderCoriolis_)

\* An evaluateError that stores the bias-corrected deltas in the factor.
FactorCachingCorrected(f, corrected) ==
  [f EXCEPT !.PIM_ = [@ EXCEPT !.deltaPij = corrected.deltaPij,
                               !.deltaVij = corrected.deltaVij]]

\* evaluateError is a const member function: the factor after a call is the
\* factor before it.
FactorAfterEvaluate(f, corrected) == f

\* The factor is built from the object, between integrateMeasurement calls.
BuildFactor(gravity, omegaCoriolis, use2ndOrderCoriolis) ==
  /\ pc = "idle"
  /\ ~factor.built
  /\ factor' = ImuFactor(pim, gravity, omegaCoriolis, NoPose, use2ndOrderCoriolis)
  /\ built' = factor'
  /\ UNCHANGED <<pim, pc, loc, result, outF, outG, writes, pre, lastOp, preOp, steps, ev>>

\* Thread t calls evaluateError and, inside computeErrorAndJacobians, corrects the
\* deltas for the bias.
EvaluateCorrect(t, a) ==
  /\ factor.built
  /\ ev[t].pc \in {"idle", "returned"}
  /\ ev' = [ev EXCEPT ![t] =
              [pc |-> "corrected", args |-> a,
               corrected |-> biascorrectedDeltas(PIMof(factor), a.bias_i)]]
  /\ factor' = FactorAfterEvaluate(factor, ev'[t].corrected)
  /\ UNCHANGED <<pim, pc, loc, result, outF, outG, writes, pre, lastOp, preOp, steps,
                 built>>

\* Thread t returns the residual.
EvaluateReturn(t) ==
  /\ ev[t].pc = "corrected"
  /\ LET a == ev[t].args
     IN  ev' = [ev EXCEPT ![t] =
                  [pc |-> "returned", args |-> a,
                   error |-> residualOf(ev[t].corrected, PIMof(factor).deltaTij,
                                        a.pose_i, a.vel_i, a.pose_j, a.vel_j,
                                        factor.gravity_, factor.omegaCoriolis_,
                                        factor.use2ndOrderCoriolis_)]]
  /\ UNCHANGED <<pim, pc, loc, result, outF, outG, writes, pre, lastOp, preOp, steps,
                 factor, built>>

Gravity == <<RZero, RZero, Rat(-981, 100)>>

\* Factor arguments: gravity, the Coriolis rate and the second-order Coriolis flag.
FactorConfigs ==
  { [gravity |-> Gravity, omegaCoriolis |-> ZeroVec, use2nd |-> FALSE],
    [gravity |-> Gravity, omegaCoriolis |-> OmegaZ(ROne), use2nd |-> TRUE] }

Pose(R, t) == [R |-> R, t |-> t]

\* The variable estimates each optimizer thread evaluates the factor at: the
\* threads work on independent estimates.
Estimates ==
  [optimizer1 |->
     [pose_i |-> Pose(I_3x3, ZeroVec), vel_i |-> ZeroVec,
      pose_j |-> Pose(I_3x3, ZeroVec), vel_j |-> ZeroVec, bias_i |-> ZeroBias],
   optimizer2 |->
     [pose_i |-> Pose(Expmap(OmegaZ(ROne)), Vec(1, 0, 0)), vel_i |-> Vec(0, 1, 0),
      pose_j |-> Pose(I_3x3, Vec(0, 2, 1)), vel_j |-> Vec(1, 0, 0),
      bias_i |-> [acc |-> Vec(0, 1, 0), gyro |-> ZeroVec]]]

EvalInputs == {Estimates[t] : t \in Threads}

\* The samples integrated around the factor's construction: whole intervals, so
\* that the Coriolis rotation over deltaTij is a whole number of quarter turns.
FactorSamples ==
  { Sample(Vec(1, 0, 0), OmegaZ(ROne), ROne, NoPose),
    Sample(Vec(0, 2, 1), ZeroVec, ROne, NoPose) }

InitFactor ==
  InitOf({c \in Configs : c.bias = ZeroBias /\ c.use2nd})

NextFactor ==
  \/ CallIntegrate(FactorSamples)
  \/ IntegrateMeasurements
  \/ IntegrateCovariance
  \/ (factor.built /\ ResetIntegration)
  \/ \E c \in FactorConfigs : BuildFactor(c.gravity, c.omegaCoriolis, c.use2nd)
  \/ \E t \in Threads : EvaluateCorrect(t, Estimates[t])
  \/ \E t \in Threads : EvaluateReturn(t)

SpecFactor == InitFactor /\ [][NextFactor]_vars

-----------------------------------------------------------------------------
(* Properties of the preintegration, checked under Spec.                   *)

\* An integrateMeasurement call has returned and nothing was called since.
Returned == pc = "idle" /\ lastOp = "integrateMeasurement"

\* The call was the first one on a new or reset object.
FirstCall == preOp \in {"new", "resetIntegration"}

Positive(q) == q[1] > 0

\* C1: integrateMeasurement called with deltaT <= 0 fails with InvalidInput and
\* leaves the object (deltas, bias Jacobians, covariance) as it was before the call.
C1_NonPositiveIntervalRejected ==
  (Returned /\ ~Positive(loc.deltaT)) => (result = "InvalidInput" /\ pim = pre)

\* A new object built from the same bias and noise as p.
FreshLike(p) ==
  PreintegratedMeasurements(p.biasHat,
                            Block(p.measurementCovariance_, 2, 2),
                            Block(p.measurementCovariance_, 3, 3),
                            Block(p.measurementCovariance_, 1, 1),
                            p.use2ndOrderIntegration)

\* C2: after any sequence of integrateMeasurement calls, resetIntegration leaves
\* the object equal to a new one with the same bias and noise: identity rotation,
\* zero velocity and position deltas, zero bias Jacobians, zero covariance; the
\* process noise and the bias are those of before the reset; a second reset
\* changes nothing.
C2_ResetEqualsFresh ==
  (pc = "idle" /\ lastOp = "resetIntegration") =>
    /\ pim = FreshLike(pre)
    /\ pim.deltaRij = I_3x3
    /\ pim.deltaVij = ZeroVec
    /\ pim.deltaPij = ZeroVec
    /\ \A i \in 1..5 : Jacobians(pim)[i] = Z_3x3
    /\ pim.preintMeasCov_ = Z_9x9
    /\ pim.measurementCovariance_ = pre.measurementCovariance_
    /\ pim.biasHat = pre.biasHat
    /\ resetIntegration(pim) = pim

\* A reset of an object that had integrated a rotation and accumulated covariance.
C2_Witness ==
  /\ pc = "idle"
  /\ lastOp = "resetIntegration"
  /\ pre.deltaRij # I_3x3
  /\ pre.deltaVij # ZeroVec
  /\ pre.delRdelBiasOmega # Z_3x3
  /\ pre.preintMeasCov_ # Z_9x9

\* C10: the first integrateMeasurement after construction or after a reset leaves
\* the covariance equal to measurementCovariance_ * deltaT, whatever the
\* acceleration, the angular velocity, the bias and the sensor pose are.
C10_FirstStepCovariance ==
  (Returned /\ FirstCall) =>
    pim.preintMeasCov_ = MatScale(pim.measurementCovariance_, loc.deltaT)

\* A first call with a rotating, accelerated sample seen through a sensor pose,
\* on an object with a bias.
C10_Witness ==
  /\ Returned
  /\ FirstCall
  /\ preOp = "resetIntegration"
  /\ loc.body_P_sensor # NoPose
  /\ loc.Rincr # I_3x3
  /\ loc.correctedAcc # ZeroVec
  /\ pim.biasHat # ZeroBias
  /\ Positive(loc.deltaT)

\* F as the specification states it, from the object as it was when the call was
\* entered: rows [I, I*dt, 0], [0, I, -R_i*skew(acc)*Jr(theta_i)*dt],
\* [0, 0, JrInv(theta_j)*Rincr^-1*Jr(theta_i)].
StatedF(before, correctedAcc, correctedOmega, deltaT) ==
  LET R_i == before.deltaRij
      theta_i == Logmap(R_i)
      Rincr == Expmap(VecScale(correctedOmega, deltaT))
      theta_j == Logmap(MatMul(R_i, Rincr))
      velAngles ==
        MatNeg(MatScale(MatMul(R_i, MatMul(skewSymmetric(correctedAcc),
                                           rightJacobianExpMapSO3(theta_i))), deltaT))
      angAngles ==
        MatMul(rightJacobianExpMapSO3inverse(theta_j),
               MatMul(Transpose(Rincr), rightJacobianExpMapSO3(theta_i)))
  IN  [i \in 1..9 |-> [j \in 1..9 |->
        CASE i <= 3 /\ j <= 3 -> IF i = j THEN ROne ELSE RZero
          [] i <= 3 /\ j \in 4..6 -> IF i = j - 3 THEN deltaT ELSE RZero
          [] i \in 4..6 /\ j \in 4..6 -> IF i = j THEN ROne ELSE RZero
          [] i \in 4..6 /\ j >= 7 -> velAngles[i - 3][j - 6]
          [] i >= 7 /\ j >= 7 -> angAngles[i - 6][j - 6]
          [] OTHER -> RZero]]

\* The off-diagonal 3x3 blocks of a 9x9 matrix are zero.
BlockDiagonal(M) ==
  \A i \in 1..9 : \A j \in 1..9 :
    ((i - 1) \div 3) # ((j - 1) \div 3) => M[i][j] = RZero

\* C9: each integrateMeasurement that returns replaces the covariance P by
\* F * P * F^T + Q * deltaT, with F as stated and Q the block-diagonal process
\* noise fixed at construction and never modified, for both settings of the
\* second-order flag.
C9_CovariancePropagation ==
  /\ BlockDiagonal(pim.measurementCovariance_)
  /\ pim.measurementCovariance_ = pre.measurementCovariance_
  /\ \E c \in Configs :
       /\ Block(pim.measurementCovariance_, 1, 1) = c.intCov
       /\ Block(pim.measurementCovariance_, 2, 2) = c.accCov
       /\ Block(pim.measurementCovariance_, 3, 3) = c.omegaCov
  /\ Returned =>
       LET F == StatedF(pre, loc.correctedAcc, loc.correctedOmega, loc.deltaT)
       IN  pim.preintMeasCov_ =
             MatAdd(MatMul(F, MatMul(pre.preintMeasCov_, Transpose(F))),
                    MatScale(pre.measurementCovariance_, loc.deltaT))

\* A later call, on a rotated object with covariance, with rotation and acceleration.
C9_Witness ==
  /\ Returned
  /\ ~FirstCall
  /\ pre.preintMeasCov_ # Z_9x9
  /\ pre.deltaRij # I_3x3
  /\ loc.Rincr # I_3x3
  /\ loc.correctedAcc # ZeroVec
  /\ Positive(loc.deltaT)
  /\ pim.use2ndOrderIntegration
  /\ Block(outF, 2, 3) # Z_3x3
  /\ Block(outF, 3, 3) # I_3x3

\* C4: in every state reached by construction and any sequence of
\* integrateMeasurement and reset calls, the covariance is symmetric and positive
\* semidefinite, and it is zero right after construction.
C4_CovarianceSymmetricPSD ==
  /\ lastOp = "new" /\ pc = "idle" => pim.preintMeasCov_ = Z_9x9
  /\ pc = "idle" => IsSymmetric(pim.preintMeasCov_) /\ IsPSD(pim.preintMeasCov_)

PositiveNoise(p) == \A i \in 1..9 : Positive(p.measurementCovariance_[i][i])

\* C5: with positive process noise, the trace of the covariance after each
\* integrateMeasurement call (of a measurement, deltaT > 0) is greater than or
\* equal to its trace before that call.
C5_TraceNonDecreasing ==
  (Returned /\ Positive(loc.deltaT) /\ PositiveNoise(pim)) =>
    RLeq(Trace(pre.preintMeasCov_), Trace(pim.preintMeasCov_))

\* C5, amended: with positive process noise and deltaT > 0, the trace after the
\* call is the trace of F * P * F^T plus deltaT * trace(Q), so greater than the
\* trace of the propagated F * P * F^T; on the first call after construction or
\* reset it is greater than the trace before the call.
C5_TraceOfPropagation ==
  (Returned /\ Positive(loc.deltaT) /\ PositiveNoise(pim)) =>
    LET propagated == Trace(MatMul(MatMul(outF, pre.preintMeasCov_), Transpose(outF)))
    IN  /\ Trace(pim.preintMeasCov_) =
             RAdd(propagated, RMul(loc.deltaT, Trace(pre.measurementCovariance_)))
        /\ RLess(propagated, Trace(pim.preintMeasCov_))
        /\ FirstCall => RLess(Trace(pre.preintMeasCov_), Trace(pim.preintMeasCov_))

\* A call with deltaT > 0 after which the trace is smaller than before.
C5_Witness ==
  /\ Returned
  /\ Positive(loc.deltaT)
  /\ PositiveNoise(pim)
  /\ RLess(Trace(pim.preintMeasCov_), Trace(pre.preintMeasCov_))

\* The gravity-cancelling sample was integrated, alone, into a new or reset
\* object with zero bias.
GravityScenario ==
  /\ Returned
  /\ FirstCall
  /\ pre.biasHat = ZeroBias
  /\ loc.measuredAcc = GravitySample.acc
  /\ loc.measuredOmega = GravitySample.omega
  /\ loc.deltaT = GravitySample.deltaT
  /\ loc.body_P_sensor = NoPose

Before(name1, name2) ==
  \A i \in 1..Len(writes) :
    writes[i] = name2 => \E j \in 1..(i - 1) : writes[j] = name1

\* C8: within one integrateMeasurement the bias Jacobians and the covariance are
\* both updated, from the rotation delta of before the call, before the deltas
\* are advanced; the covariance update reads only one value of after the
\* advance, the new rotation, for the inverse right Jacobian.
C8_JacobiansAndCovarianceBeforeDeltas ==
  /\ Before("jacobians", "measurements")
  /\ Before("covariance", "measurements")

\* The right-hand sides of the Jacobian update that read the rotation delta, from
\* the rotation delta of before the call.
JacobiansFromOldRotation ==
  /\ pim.delVdelBiasAcc = MatSub(pre.delVdelBiasAcc, MatScale(pre.deltaRij, loc.deltaT))
  /\ pim.delVdelBiasOmega =
       MatSub(pre.delVdelBiasOmega,
              MatMul(MatScale(MatMul(pre.deltaRij, skewSymmetric(loc.correctedAcc)),
                              loc.deltaT),
                     pre.delRdelBiasOmega))

\* The order the code has (C8): the bias Jacobians are updated, from the rotation
\* delta of before the call, before the deltas are advanced; the covariance is
\* assigned after the deltas are advanced, from R_i and Jr(theta_i) read before
\* the advance and from the inverse right Jacobian of the new rotation.
C8_JacobiansThenDeltasThenCovariance ==
  /\ Before("jacobians", "measurements")
  /\ Before("measurements", "covariance")
  /\ pc = "jacobians" => /\ JacobiansFromOldRotation
                         /\ Deltas(pim) = Deltas(pre)
                         /\ pim.preintMeasCov_ = pre.preintMeasCov_
  /\ pc = "measurements" => /\ JacobiansFromOldRotation
                            /\ pim.deltaRij = MatMul(pre.deltaRij, loc.Rincr)
                            /\ pim.preintMeasCov_ = pre.preintMeasCov_
  /\ Returned =>
       /\ JacobiansFromOldRotation
       /\ Block(outF, 2, 3) =
            MatNeg(MatScale(MatMul(MatMul(pre.deltaRij, skewSymmetric(loc.correctedAcc)),
                                   rightJacobianExpMapSO3(Logmap(pre.deltaRij))),
                            loc.deltaT))
       /\ Block(outF, 3, 3) =
            MatMul(MatMul(rightJacobianExpMapSO3inverse(Logmap(pim.deltaRij)),
                          Transpose(loc.Rincr)),
                   rightJacobianExpMapSO3(Logmap(pre.deltaRij)))
       /\ pim.preintMeasCov_ =
            MatAdd(MatMul(MatMul(outF, pre.preintMeasCov_), Transpose(outF)),
                   MatScale(pim.measurementCovariance_, loc.deltaT))

\* A call that turned an already rotated object further, with acceleration, so
\* that the old and the new rotation give different F.
C8_Witness ==
  /\ Returned
  /\ writes = <<"jacobians", "measurements", "covariance">>
  /\ pre.deltaRij # I_3x3
  /\ pim.deltaRij # pre.deltaRij
  /\ pim.deltaRij # I_3x3
  /\ loc.correctedAcc # ZeroVec
  /\ pre.delRdelBiasOmega # Z_3x3
  /\ pre.preintMeasCov_ # Z_9x9

-----------------------------------------------------------------------------
(* Properties of the factor, checked under SpecFactor.                     *)

\* evaluateError of the factor as it was constructed, at the estimates a.
ErrorAtConstruction(a) ==
  computeErrorAndJacobians(built.PIM_, a.pose_i, a.vel_i, a.pose_j, a.vel_j, a.bias_i,
                           built.gravity_, built.omegaCoriolis_,
                           built.use2ndOrderCoriolis_)

\* C3: the factor holds a copy of the object taken at construction: whatever
\* integrateMeasurement and resetIntegration calls are made on the original
\* afterwards, the factor's deltas, bias Jacobians, covariance and noise model
\* are those of its construction, and evaluateError on the same inputs returns
\* what it returned at construction.
C3_FactorKeepsSnapshot ==
  factor.built =>
    /\ Deltas(PIMof(factor)) = Deltas(built.PIM_)
    /\ Jacobians(PIMof(factor)) = Jacobians(built.PIM_)
    /\ PIMof(factor).preintMeasCov_ = built.PIM_.preintMeasCov_
    /\ factor.noiseModel_ = GaussianCovariance(built.PIM_.preintMeasCov_)
    /\ \A a \in EvalInputs :
         evaluateError(factor, a.pose_i, a.vel_i, a.pose_j, a.vel_j, a.bias_i) =
           ErrorAtConstruction(a)

\* The original was integrated further and then reset after the factor was built
\* from an integrated object, and differs from the factor's copy in deltas,
\* Jacobians and covariance.
C3_Witness ==
  /\ factor.built
  /\ pc = "idle"
  /\ built.PIM_.deltaRij # I_3x3
  /\ built.PIM_.preintMeasCov_ # Z_9x9
  /\ lastOp = "resetIntegration"
  /\ preOp = "integrateMeasurement"
  /\ pre.deltaTij # built.PIM_.deltaTij
  /\ pre.preintMeasCov_ # built.PIM_.preintMeasCov_
  /\ Deltas(pim) # Deltas(built.PIM_)
  /\ Jacobians(pim) # Jacobians(built.PIM_)
  /\ pim.preintMeasCov_ # built.PIM_.preintMeasCov_

\* C6: any interleaving of evaluateError calls from several threads leaves the
\* factor (deltas, bias Jacobians, covariance, gravity, Coriolis rate, flags) as
\* it was constructed, and each call returns the residual it would return if
\* run alone with the same five inputs.
C6_EvaluateReentrant ==
  /\ factor.built => factor = built
  /\ \A t \in Threads :
       ev[t].pc = "returned" => ev[t].error = ErrorAtConstruction(ev[t].args)

\* One thread returned while another, evaluating at other estimates, had
\* corrected the deltas for a changed bias and not yet returned.
C6_Witness ==
  \E t, u \in Threads :
    /\ ev[t].pc = "returned"
    /\ ev[u].pc = "corrected"
    /\ ev[t].args # ev[u].args
    /\ ev[t].args.bias_i # PIMof(factor).biasHat
    /\ ev[t].error # ErrorAtConstruction(ev[u].args)
    /\ PIMof(factor).deltaRij # I_3x3

====
